---- MODULE Spec2Model ----
(***************************************************************************)
(* A model of the CareConnect Telegram bots: the reminders bot's pollers   *)
(* (activities, tasks, fall alerts, medications, the stand-alone event     *)
(* poller of reminders_bot/main.py, the fall-alert buttons) and the        *)
(* assistant bot's authorisation decorator, query parser, response         *)
(* truncation, command dispatch, voice-note conversation and text-message  *)
(* handler.                                                                *)
(*                                                                         *)
(* The components share no mutable state, so each has its own              *)
(* specification; a component that a specification does not exercise is    *)
(* switched "off" in the initial state and none of its actions is enabled. *)
(***************************************************************************)
EXTENDS Integers, Sequences, FiniteSets, TLC

\* JSON null, Python None, a key that is absent from a dict.
NULL == 0 - 1

Min(a, b) == IF a <= b THEN a ELSE b

\* ---------------------------------------------------------------- bounds
\* The wall clock, in minutes, runs from 0 to MaxClock.
MaxClock == 7
\* Number of runs of a poller in one behaviour.
MaxPolls == 2

\* ------------------------------------------------------- chat registry
\* reminders_bot.chat_registry.user_chat_map: user id -> Telegram chat id,
\* iterated in insertion order by user_chat_map.items().
Users == {"u1", "u2"}
user_chat_map == [u \in Users |-> IF u = "u1" THEN "c1" ELSE "c2"]
UserOrder == <<"u1", "u2">>
Chats == {user_chat_map[u] : u \in Users}

VARIABLES
    clock,          \* wall clock, minutes
    \* --- activity / task reminders (services/activity_service.py, task_service.py)
    pollPc,         \* "off" | "idle" | "user" | "records"
    pollKind,       \* "activity" (process_events) | "task" (process_task_reminders)
    backend,        \* the API's records: id -> [owner, start_time, lead, reminder_sent]
    now_utc,        \* the time process_events read when the poll started
    userIdx,        \* position in user_chat_map.items()
    fetched,        \* the list fetch_activities / fetch_tasks returned for the user
    recIdx,         \* position in that list
    sent,           \* id -> number of reminder messages delivered to the owner's chat
    markReq,        \* id -> number of mark_reminder_sent PATCH requests made
    polls,          \* number of polls started
    lastFetch,      \* how the API answered the last fetch: "none" | "ok" | "status" | "raise"
    \* --- the event poller of reminders_bot/main.py
    evPc,           \* runner -> "off" | "idle" | "fetching" | "loop" | "marking"
    evBackend,      \* the API's events: id -> [datetime, reminder_sent]
    evList,         \* runner -> the list fetch_events returned to it
    evNow,          \* runner -> the time it read after the fetch
    evIdx,          \* runner -> its position in the list
    evSent,         \* id -> number of reminder messages delivered to CHAT_ID
    evRuns,         \* number of process_events runs started
    evFetch,        \* runner -> how the API answered its fetch
    evPatchFailed,  \* some mark_reminder_sent PATCH was not accepted
    evDelivery,     \* runner -> how its last send_message ended, while it waits to mark
    \* --- fall alerts (services/fall_detection_service.py)
    fallPc,         \* "off" | "idle" | "loop"
    fallBackend,    \* the API's fall logs: id -> [status, timestamp, fall_id],
                    \* fall_id being the log's _id, "" when the log has none
    fallLogs,       \* the list fetch_fall_logs returned
    fallNow,        \* now_utc of the run
    fallIdx,        \* position in the list
    alerts,         \* <<log id, chat>> -> number of alert messages delivered
    fallRuns,       \* number of runs started
    fallFetch,      \* how the API answered the last fetch
    fallDelivery,   \* chat -> how send_message answered the last alert: "none", "ok", "raise"
    buttons,        \* <<log, chat>> -> number of alert messages showing the two buttons
    fallResponse,   \* the last call of handle_fall_response
    fallPresses,    \* number of calls of handle_fall_response
    \* --- medication reminders (services/medication_service.py)
    medPc,          \* "off" | "idle" | "user" | "resident"
    today,          \* the day of now_sg, counted in days
    medUserIdx,     \* position in user_chat_map.items()
    medResidents,   \* the list fetch_residents returned for the user
    medResIdx,      \* position in that list
    jobs,           \* <<medication, times_of_day index, chat>> -> jobs in the scheduler
    medRuns,        \* number of runs started
    medFetch,       \* how the API answered the last fetch
    medRaised,      \* the medication whose handling raised in the last turn of
                    \* the loop over the residents, "none" when none did
    \* --- the restricted decorator (auth/user_auth.py, auth_service.py)
    authPc,         \* "off" | "on"
    users_collection, \* the documents of caregiver.users
    user_data,      \* caller -> context.user_data, key -> value ("" when the key is absent)
    bodyRuns,       \* caller -> number of times the wrapped handler ran for the caller
    denied,         \* caller -> number of not-authorized replies sent to the caller
    authCalls,      \* number of calls of a wrapped handler
    authLast,       \* the caller of the last call
    \* -- the query parser
    parsePc,        \* "off" | "ready" | "done"
    message_text,   \* the message, a sequence of characters
    parseImpl,      \* which of the two implementations ran
    parsed,         \* the result: intent, time_range, the keys of filters
    \* -- the response formatter
    fmtPc,          \* "off" | "ready" | "done"
    fmtText,        \* the text handed to truncate_response, as line lengths
    fmtItems,       \* the records handed to a format_* function, as title lengths
    fmtOp,          \* the function that ran
    fmtOut,         \* its result
    \* -- the dispatch of updates
    dispPc,         \* "off" | "on"
    conv_state,     \* the state of the voice-note conversation
    lastUpdate,     \* the last update
    lastHandler,    \* the callback that handled it ("" if none)
    updatesSeen,    \* number of updates so far
    note_data,      \* the voice-note keys of context.user_data ("" is no value)
    voiceLog,       \* the conversation so far: whether a resident was selected and
                    \* speech recognized since it began, the calls of
                    \* add_resident_note, and how the last callback's environment answered
    \* -- the conversation with the assistant
    chatPc,         \* "off" | "on"
    user_context,   \* MessageHandler.user_context: user -> the context of the last query
    lastCall,       \* the last call of handle_message: its user, the user's context
                    \* before it, the intent and time range answered, the replies
    msgCount        \* number of text messages so far

pollVars == <<pollPc, pollKind, backend, now_utc, userIdx, fetched, recIdx,
              sent, markReq, polls, lastFetch>>

evVars == <<evPc, evBackend, evList, evNow, evIdx, evSent, evRuns, evFetch,
            evPatchFailed, evDelivery>>

fallVars == <<fallPc, fallBackend, fallLogs, fallNow, fallIdx, alerts, fallRuns, fallFetch,
             fallDelivery, buttons, fallResponse, fallPresses>>

medVars == <<medPc, today, medUserIdx, medResidents, medResIdx, jobs, medRuns, medFetch,
            medRaised>>

authVars == <<authPc, users_collection, user_data, bodyRuns, denied, authCalls, authLast>>

remVars == <<clock, pollVars, evVars, fallVars, medVars>>

parseVars == <<parsePc, message_text, parseImpl, parsed>>

fmtVars == <<fmtPc, fmtText, fmtItems, fmtOp, fmtOut>>

dispVars == <<dispPc, conv_state, lastUpdate, lastHandler, updatesSeen, note_data, voiceLog>>

chatVars == <<chatPc, user_context, lastCall, msgCount>>

\* the assistant bot's state
botVars == <<authVars, parseVars, fmtVars, dispVars, chatVars>>

vars == <<remVars, botVars>>

\* ------------------------------------------------------------------
\* Activity and task reminders.
\* Times are minutes; a record's start is its start_time (activities) or
\* start_date (tasks), its lead is reminder_minutes or remind_prior.
\* ------------------------------------------------------------------
Records == {"r1", "r2", "r3"}
RecordOrder == <<"r1", "r2", "r3">>
OwnerOf(r) == IF r = "r3" THEN "u2" ELSE "u1"
FarStart == 3000

\* timedelta(days=2), in minutes
TwoDays == 2880
\* the lead used when reminder_minutes / remind_prior is None
DefaultLead == 5

RECURSIVE SelectSeq2(_, _)
\* the subsequence of s whose elements are in the set keep
SelectSeq2(s, keep) ==
    IF s = <<>> THEN <<>>
    ELSE IF Head(s) \in keep THEN <<Head(s)>> \o SelectSeq2(Tail(s), keep)
         ELSE SelectSeq2(Tail(s), keep)

\* what GET /activities?created_by=user or /tasks/telegram?assigned_to=user
\* holds at this moment: the user's records, in the API's order
ApiRecords(user) ==
    LET ids == SelectSeq2(RecordOrder, {r \in Records : backend[r].owner = user})
    IN  [i \in 1..Len(ids) |-> [id |-> ids[i]] @@ backend[ids[i]]]

\* fetch_activities without the test of response.status
fetch_activities_any_status(user, resp, at) ==
    IF resp = "raise" THEN <<>>
    ELSE LET all == ApiRecords(user)
             keep == {i \in 1..Len(all) : all[i].start_time <= at + TwoDays}
         IN  [j \in 1..Cardinality(keep) |->
                all[CHOOSE i \in keep : Cardinality({k \in keep : k < i}) = j - 1]]

\* fetch_activities: [] unless the API answers 200; of a 200 answer it keeps
\* the activities that start within two days of the time of the fetch
fetch_activities(user, resp, at) ==
    IF resp # "ok" THEN <<>>
    ELSE LET all == ApiRecords(user)
             keep == {i \in 1..Len(all) : all[i].start_time <= at + TwoDays}
         IN  [j \in 1..Cardinality(keep) |->
                all[CHOOSE i \in keep : Cardinality({k \in keep : k < i}) = j - 1]]

\* fetch_tasks: [] unless the API answers 200; a 200 answer is returned as is
fetch_tasks(user, resp, at) ==
    IF resp # "ok" THEN <<>> ELSE ApiRecords(user)

\* reminder_minutes = activity.get("reminder_minutes"); None -> 5
LeadOf(item) == IF item.lead = NULL THEN DefaultLead ELSE item.lead

\* the test with now <= start_time in place of now < start_time
ReminderDue_until_start(now, item) ==
    /\ now >= item.start_time - LeadOf(item)
    /\ now <= item.start_time
    /\ ~item.reminder_sent

\* the test of process_events / process_task_reminders on one record
ReminderDue(now, item) ==
    /\ now >= item.start_time - LeadOf(item)
    /\ now < item.start_time
    /\ ~item.reminder_sent

\* time passes between the steps of a poll and between polls
Tick ==
    /\ clock < MaxClock
    /\ clock' = clock + 1
    /\ UNCHANGED <<pollVars, evVars, fallVars, medVars>>
    /\ UNCHANGED botVars

\* process_events / process_task_reminders is called: now_utc is read once
process_events ==
    /\ pollPc = "idle"
    /\ polls < MaxPolls
    /\ pollPc' = "user"
    /\ now_utc' = clock
    /\ userIdx' = 1
    /\ polls' = polls + 1
    /\ lastFetch' = "none"
    /\ UNCHANGED <<clock, pollKind, backend, fetched, recIdx, sent, markReq>>
    /\ UNCHANGED <<evVars, fallVars, medVars>>
    /\ UNCHANGED botVars

\* the head of the loop over user_chat_map.items(): fetch the user's records,
\* or end the poll when every user was served
PollFetch ==
    /\ pollPc = "user"
    /\ IF userIdx > Len(UserOrder)
       THEN /\ pollPc' = "idle"
            /\ UNCHANGED <<fetched, recIdx, lastFetch>>
       ELSE \E resp \in {"ok", "status", "raise"} :
            /\ fetched' = IF pollKind = "activity"
                          THEN fetch_activities(UserOrder[userIdx], resp, clock)
                          ELSE fetch_tasks(UserOrder[userIdx], resp, clock)
            /\ recIdx' = 1
            /\ lastFetch' = resp
            /\ pollPc' = "records"
    /\ UNCHANGED <<clock, pollKind, backend, now_utc, userIdx, sent, markReq, polls>>
    /\ UNCHANGED <<evVars, fallVars, medVars>>
    /\ UNCHANGED botVars

\* mark_reminder_sent / mark_task_reminder_sent: the PATCH sets the flag when
\* the API accepts it; any other answer, or an exception, is only logged
mark_reminder_sent(id, answer) ==
    /\ markReq' = [markReq EXCEPT ![id] = @ + 1]
    /\ backend' = IF answer = "ok"
                  THEN [backend EXCEPT ![id].reminder_sent = TRUE]
                  ELSE backend

\* a send_reminder that requests the mark whatever send_message did
send_reminder_mark_always(item, delivery, answer) ==
    /\ sent' = [sent EXCEPT ![item.id] = IF delivery = "ok" THEN @ + 1 ELSE @]
    /\ mark_reminder_sent(item.id, answer)

\* send_reminder / send_task_reminder: send_message, then the mark; an
\* exception of send_message is caught and logged, and skips the mark
send_reminder(item, delivery, answer) ==
    IF delivery = "ok"
    THEN /\ sent' = [sent EXCEPT ![item.id] = @ + 1]
         /\ mark_reminder_sent(item.id, answer)
    ELSE UNCHANGED <<sent, markReq, backend>>

\* one turn of the loop over the fetched records
PollRecord ==
    /\ pollPc = "records"
    /\ IF recIdx > Len(fetched)
       THEN /\ userIdx' = userIdx + 1
            /\ pollPc' = "user"
            /\ UNCHANGED <<recIdx, sent, markReq, backend>>
       ELSE /\ recIdx' = recIdx + 1
            /\ UNCHANGED <<userIdx, pollPc>>
            /\ IF ReminderDue(now_utc, fetched[recIdx])
               THEN \E delivery \in {"ok", "raise"}, answer \in {"ok", "status", "raise"} :
                        send_reminder(fetched[recIdx], delivery, answer)
               ELSE UNCHANGED <<sent, markReq, backend>>
    /\ UNCHANGED <<clock, pollKind, now_utc, fetched, polls, lastFetch>>
    /\ UNCHANGED <<evVars, fallVars, medVars>>
    /\ UNCHANGED botVars

\* ------------------------------------------------------------------
\* The event poller of reminders_bot/main.py. process_events runs as the
\* scheduler's interval job and as the body of the /check command; both are
\* coroutines of one event loop and interleave at their await points: the
\* fetch, send_message and the PATCH.
\* ------------------------------------------------------------------
Runners == {"job", "check"}
Events == {"e1", "e2"}
EventOrder == <<"e1", "e2">>
\* timedelta(hours=1), in minutes
OneHour == 60

\* fetch_events: the API's JSON on status 200, [] on any other status and
\* when the request raises
fetch_events(resp) ==
    IF resp # "ok" THEN <<>>
    ELSE [i \in 1..Len(EventOrder) |-> [id |-> EventOrder[i]] @@ evBackend[EventOrder[i]]]

\* the test of process_events on one event
EventDue(now, event) ==
    /\ event.datetime - now <= OneHour
    /\ event.datetime - now > 0
    /\ ~event.reminder_sent

\* the scheduler fires the job, or check_command calls process_events:
\* the run issues its GET and waits for the answer
EvStart(p) ==
    /\ evPc[p] = "idle"
    /\ evRuns < MaxPolls
    /\ evRuns' = evRuns + 1
    /\ evPc' = [evPc EXCEPT ![p] = "fetching"]
    /\ evFetch' = [evFetch EXCEPT ![p] = "none"]
    /\ UNCHANGED <<evBackend, evList, evNow, evIdx, evSent, evPatchFailed, evDelivery>>
    /\ UNCHANGED <<clock, pollVars, fallVars, medVars>>
    /\ UNCHANGED botVars

\* the answer of the GET arrives; now = datetime.now()
EvFetched(p) ==
    /\ evPc[p] = "fetching"
    /\ \E resp \in {"ok", "status", "raise"} :
         /\ evList' = [evList EXCEPT ![p] = fetch_events(resp)]
         /\ evFetch' = [evFetch EXCEPT ![p] = resp]
    /\ evNow' = [evNow EXCEPT ![p] = clock]
    /\ evIdx' = [evIdx EXCEPT ![p] = 1]
    /\ evPc' = [evPc EXCEPT ![p] = "loop"]
    /\ UNCHANGED <<evBackend, evSent, evRuns, evPatchFailed, evDelivery>>
    /\ UNCHANGED <<clock, pollVars, fallVars, medVars>>
    /\ UNCHANGED botVars

\* send_reminder of main.py: send_message; its exception is caught and logged
\* inside send_reminder, so the caller goes on to the mark either way
send_event_reminder(p, event, delivery) ==
    /\ evSent' = IF delivery = "ok" THEN [evSent EXCEPT ![event.id] = @ + 1] ELSE evSent
    /\ evDelivery' = [evDelivery EXCEPT ![p] = delivery]

\* one turn of the for loop up to its first await: an event that is not due
\* is skipped, a due one is sent and the run waits in front of the PATCH
EvLoop(p) ==
    /\ evPc[p] = "loop"
    /\ IF evIdx[p] > Len(evList[p])
       THEN /\ evPc' = [evPc EXCEPT ![p] = "idle"]
            /\ UNCHANGED <<evIdx, evSent, evDelivery>>
       ELSE IF EventDue(evNow[p], evList[p][evIdx[p]])
            THEN /\ \E delivery \in {"ok", "raise"} :
                      send_event_reminder(p, evList[p][evIdx[p]], delivery)
                 /\ evPc' = [evPc EXCEPT ![p] = "marking"]
                 /\ UNCHANGED evIdx
            ELSE /\ evIdx' = [evIdx EXCEPT ![p] = @ + 1]
                 /\ UNCHANGED <<evPc, evSent, evDelivery>>
    /\ UNCHANGED <<evBackend, evList, evNow, evRuns, evFetch, evPatchFailed>>
    /\ UNCHANGED <<clock, pollVars, fallVars, medVars>>
    /\ UNCHANGED botVars

\* mark_reminder_sent of main.py: PATCH {"reminder_sent": true}; a status
\* outside 200, 201, 204 and an exception are only logged
EvMark(p) ==
    /\ evPc[p] = "marking"
    /\ \E answer \in {"ok", "status", "raise"} :
         /\ evBackend' = IF answer = "ok"
                         THEN [evBackend EXCEPT ![evList[p][evIdx[p]].id].reminder_sent = TRUE]
                         ELSE evBackend
         /\ evPatchFailed' = (evPatchFailed \/ answer # "ok")
    /\ evIdx' = [evIdx EXCEPT ![p] = @ + 1]
    /\ evPc' = [evPc EXCEPT ![p] = "loop"]
    /\ evDelivery' = [evDelivery EXCEPT ![p] = "none"]
    /\ UNCHANGED <<evList, evNow, evSent, evRuns, evFetch>>
    /\ UNCHANGED <<clock, pollVars, fallVars, medVars>>
    /\ UNCHANGED botVars

NextEv ==
    \/ Tick
    \/ \E p \in Runners : EvStart(p)
    \/ \E p \in Runners : EvFetched(p)
    \/ \E p \in Runners : EvLoop(p)
    \/ \E p \in Runners : EvMark(p)

\* ------------------------------------------------------------------
\* Fall alerts. Times are minutes.
\* ------------------------------------------------------------------
Falls == {"f1", "f2"}
FallOrder == <<"f1", "f2">>
\* timedelta(minutes=5)
FiveMinutes == 5

\* the logs the API holds at this moment, oldest first
ApiFallLogs ==
    LET ids == SelectSeq2(FallOrder, {f \in Falls : fallBackend[f].timestamp <= clock})
    IN  [i \in 1..Len(ids) |-> [id |-> ids[i]] @@ fallBackend[ids[i]]]

\* fetch_fall_logs: the API's JSON on status 200, [] otherwise
fetch_fall_logs(resp) == IF resp # "ok" THEN <<>> ELSE ApiFallLogs

\* a test that looks at the age of the log only
FallAlertDue_any_status(now, log) ==
    ~(log.timestamp < now - FiveMinutes)

\* the two tests of process_fall_alerts on one log
FallAlertDue(now, log) ==
    /\ log.status \in {"pending", "confirmed"}
    /\ ~(log.timestamp < now - FiveMinutes)

\* process_fall_alerts is called: it fetches the logs, then reads now_utc
process_fall_alerts ==
    /\ fallPc = "idle"
    /\ fallRuns < MaxPolls
    /\ fallRuns' = fallRuns + 1
    /\ \E resp \in {"ok", "status", "raise"} :
         /\ fallLogs' = fetch_fall_logs(resp)
         /\ fallFetch' = resp
    /\ fallNow' = clock
    /\ fallIdx' = 1
    /\ fallPc' = "loop"
    /\ fallDelivery' = [c \in Chats |-> "none"]
    /\ UNCHANGED <<fallBackend, alerts, buttons, fallResponse, fallPresses>>
    /\ UNCHANGED <<clock, pollVars, evVars, medVars>>
    /\ UNCHANGED botVars

\* send_fall_alert to every chat of user_chat_map; an exception of
\* send_message is caught and logged inside send_fall_alert. The message
\* carries the two buttons when the status is pending and the log has an _id.
send_fall_alert(log, delivery) ==
    /\ alerts' = [k \in Falls \X Chats |->
                    IF k[1] = log.id /\ delivery[k[2]] = "ok" THEN alerts[k] + 1 ELSE alerts[k]]
    /\ buttons' = [k \in Falls \X Chats |->
                    IF /\ k[1] = log.id /\ delivery[k[2]] = "ok"
                       /\ log.status = "pending" /\ log.fall_id # ""
                    THEN buttons[k] + 1 ELSE buttons[k]]
    /\ fallDelivery' = delivery

\* one turn of the loop over the logs
FallLog ==
    /\ fallPc = "loop"
    /\ IF fallIdx > Len(fallLogs)
       THEN /\ fallPc' = "idle"
            /\ fallDelivery' = [c \in Chats |-> "none"]
            /\ UNCHANGED <<fallIdx, alerts, buttons>>
       ELSE /\ fallIdx' = fallIdx + 1
            /\ UNCHANGED fallPc
            /\ IF FallAlertDue(fallNow, fallLogs[fallIdx])
               THEN \E delivery \in [Chats -> {"ok", "raise"}] :
                        send_fall_alert(fallLogs[fallIdx], delivery)
               ELSE /\ fallDelivery' = [c \in Chats |-> "none"]
                    /\ UNCHANGED <<alerts, buttons>>
    /\ UNCHANGED <<fallBackend, fallLogs, fallNow, fallRuns, fallFetch, fallResponse, fallPresses>>
    /\ UNCHANGED <<clock, pollVars, evVars, medVars>>
    /\ UNCHANGED botVars

NextFall == Tick \/ process_fall_alerts \/ FallLog

\* Number of button presses in one behaviour.
MaxPresses == 1

NoResponse ==
    [fall |-> "", chat |-> "", action |-> "", new_status |-> "", answer |-> "", reply |-> ""]

\* a handle_fall_response that takes the buttons away whatever the PATCH did
handle_fall_response_always_edits(fall, chat, action, answer, edit) ==
    LET new_status == IF action = "confirm" THEN "confirmed" ELSE "false_positive"
    IN  /\ fallPc # "off"
        /\ fallPresses < MaxPresses
        /\ buttons[<<fall, chat>>] > 0
        /\ fallPresses' = fallPresses + 1
        /\ fallBackend' = IF answer = "200"
                          THEN [fallBackend EXCEPT ![fall].status = new_status]
                          ELSE fallBackend
        /\ buttons' = [buttons EXCEPT ![<<fall, chat>>] = @ - 1]
        /\ fallResponse' =
             [fall |-> fall, chat |-> chat, action |-> action, new_status |-> new_status,
              answer |-> answer,
              reply |-> IF answer = "200" /\ edit = "ok" THEN new_status
                        ELSE IF answer = "status" THEN "failed" ELSE "error"]
        /\ UNCHANGED <<fallPc, fallLogs, fallNow, fallIdx, alerts, fallRuns, fallFetch,
                       fallDelivery>>
        /\ UNCHANGED <<clock, pollVars, evVars, medVars>>
        /\ UNCHANGED botVars

\* handle_fall_response: a button of an alert message for the log is pressed
\* in the chat, the callback data being action|fall_id. answer is the answer
\* of the PATCH ("200", "status" for any other status, "raise"), edit that of
\* edit_message_reply_markup. The reply is the outcome text of the requested
\* status, "failed" (Failed to update fall status) or "error" (Error
\* updating fall status).
handle_fall_response(fall, chat, action, answer, edit) ==
    LET new_status == IF action = "confirm" THEN "confirmed" ELSE "false_positive"
    IN  /\ fallPc # "off"
        /\ fallPresses < MaxPresses
        /\ buttons[<<fall, chat>>] > 0
        /\ fallPresses' = fallPresses + 1
        /\ fallBackend' = IF answer = "200"
                          THEN [fallBackend EXCEPT ![fall].status = new_status]
                          ELSE fallBackend
        /\ buttons' = IF answer = "200" /\ edit = "ok"
                      THEN [buttons EXCEPT ![<<fall, chat>>] = @ - 1]
                      ELSE buttons
        /\ fallResponse' =
             [fall |-> fall, chat |-> chat, action |-> action, new_status |-> new_status,
              answer |-> answer,
              reply |-> IF answer = "200" /\ edit = "ok" THEN new_status
                        ELSE IF answer = "status" THEN "failed" ELSE "error"]
        /\ UNCHANGED <<fallPc, fallLogs, fallNow, fallIdx, alerts, fallRuns, fallFetch,
                       fallDelivery>>
        /\ UNCHANGED <<clock, pollVars, evVars, medVars>>
        /\ UNCHANGED botVars

FallResponse ==
    \E fall \in Falls, chat \in Chats, action \in {"confirm", "false"},
       answer \in {"200", "status", "raise"}, edit \in {"ok", "raise"} :
        handle_fall_response(fall, chat, action, answer, edit)

\* ------------------------------------------------------------------
\* Medication reminders. Dates are days; a week is seven days.
\* ------------------------------------------------------------------
\* user_name_map of the chat registry
user_name_map == [u \in Users |-> IF u = "u1" THEN "nurse1" ELSE "nurse2"]

Residents == {"res1", "res2"}
ResidentOrder == <<"res1", "res2">>
CaregiverOf(r) == IF r = "res1" THEN "nurse1" ELSE "nurse2"

Meds == {"m1", "m2", "m3", "m4"}
MedOrder == <<"m1", "m2", "m3", "m4">>
\* the medications the API holds
MedTable ==
    [m \in Meds |->
       CASE m = "m1" -> [resident |-> "res1", schedule_type |-> "day", repeat |-> 2,
                         start_date |-> 0, end_date |-> 30, days_of_week |-> {},
                         times_of_day |-> 2]
         [] m = "m2" -> [resident |-> "res1", schedule_type |-> "week", repeat |-> 1,
                         start_date |-> 0, end_date |-> 30, days_of_week |-> {1, 3},
                         times_of_day |-> 1]
         [] m = "m3" -> [resident |-> "res2", schedule_type |-> "custom", repeat |-> 1,
                         start_date |-> 0, end_date |-> 30, days_of_week |-> {},
                         times_of_day |-> 1]
         [] OTHER    -> [resident |-> "res2", schedule_type |-> "day", repeat |-> 1,
                         start_date |-> 0, end_date |-> 8, days_of_week |-> {},
                         times_of_day |-> 1]]
MaxTimes == 2
Doses == {k \in Meds \X (1..MaxTimes) \X Chats : k[2] <= MedTable[k[1]].times_of_day}

\* fetch_residents: the API's JSON on status 200, [] otherwise
fetch_residents(user_name, resp) ==
    IF resp # "ok" THEN <<>>
    ELSE SelectSeq2(ResidentOrder, {r \in Residents : CaregiverOf(r) = user_name})

\* fetch_medications: [] unless the API answers 200; of a 200 answer it keeps
\* the medications with start_date <= today < end_date whose schedule is not
\* "custom"
fetch_medications(resident_id, resp, day) ==
    IF resp # "ok" THEN <<>>
    ELSE SelectSeq2(MedOrder,
            {m \in Meds : /\ MedTable[m].resident = resident_id
                          /\ MedTable[m].start_date <= day
                          /\ MedTable[m].end_date > day
                          /\ MedTable[m].schedule_type # "custom"})

\* the schedule test of schedule_medication_reminders
MedDueToday(m, day) ==
    LET med == MedTable[m]
    IN  \/ /\ med.schedule_type = "day"
           /\ (day - med.start_date) % med.repeat = 0
        \/ /\ med.schedule_type = "week"
           /\ ((day \div 7) - (med.start_date \div 7)) % med.repeat = 0
           /\ (day % 7) \in med.days_of_week

\* queue_medication_reminder: scheduler.add_job(..., id=f"med_{uuid4()}") for
\* every entry of times_of_day; the fresh id makes every call a new job
queue_medication_reminder(js, m, chat) ==
    [k \in Doses |-> IF k[1] = m /\ k[3] = chat THEN js[k] + 1 ELSE js[k]]

RECURSIVE QueueAll(_, _, _, _, _)
\* the loop over the resident's medications, inside the try of the loop
\* over the residents: the schedule test raises on a malformed medication (a
\* repeat of null or 0, days_of_week null), the exception leaves the loop
\* over the medications and is caught and logged by the resident's except
QueueAll(js, meds, chat, day, malformed) ==
    IF meds = <<>> THEN js
    ELSE IF Head(meds) = malformed THEN js
    ELSE QueueAll(IF MedDueToday(Head(meds), day)
                  THEN queue_medication_reminder(js, Head(meds), chat) ELSE js,
                  Tail(meds), chat, day, malformed)

\* schedule_medication_reminders is called
schedule_medication_reminders ==
    /\ medPc = "idle"
    /\ medRuns < MaxPolls
    /\ medRuns' = medRuns + 1
    /\ medUserIdx' = 1
    /\ medPc' = "user"
    /\ medFetch' = "none"
    /\ UNCHANGED <<today, medResidents, medResIdx, jobs, medRaised>>
    /\ UNCHANGED <<clock, pollVars, evVars, fallVars>>
    /\ UNCHANGED botVars

\* the head of the loop over the users: fetch_residents(user_name)
MedUser ==
    /\ medPc = "user"
    /\ IF medUserIdx > Len(UserOrder)
       THEN /\ medPc' = "idle"
            /\ UNCHANGED <<medResidents, medResIdx, medFetch>>
       ELSE \E resp \in {"ok", "status", "raise"} :
            /\ medResidents' = fetch_residents(user_name_map[UserOrder[medUserIdx]], resp)
            /\ medFetch' = resp
            /\ medResIdx' = 1
            /\ medPc' = "resident"
    /\ UNCHANGED <<today, medUserIdx, jobs, medRuns, medRaised>>
    /\ UNCHANGED <<clock, pollVars, evVars, fallVars>>
    /\ UNCHANGED botVars

\* one turn of the loop over the residents: fetch_medications, then queue the
\* medications that are due today
MedResident ==
    /\ medPc = "resident"
    /\ IF medResIdx > Len(medResidents)
       THEN /\ medUserIdx' = medUserIdx + 1
            /\ medPc' = "user"
            /\ UNCHANGED <<medResIdx, jobs, medFetch, medRaised>>
       ELSE \E resp \in {"ok", "status", "raise"}, malformed \in Meds \cup {"none"} :
            /\ LET medications == fetch_medications(medResidents[medResIdx], resp, today)
               IN  /\ jobs' = QueueAll(jobs, medications,
                                       user_chat_map[UserOrder[medUserIdx]], today, malformed)
                   /\ medRaised' = IF \E i \in 1..Len(medications) : medications[i] = malformed
                                   THEN malformed ELSE "none"
            /\ medFetch' = resp
            /\ medResIdx' = medResIdx + 1
            /\ UNCHANGED <<medUserIdx, medPc>>
    /\ UNCHANGED <<today, medResidents, medRuns>>
    /\ UNCHANGED <<clock, pollVars, evVars, fallVars>>
    /\ UNCHANGED botVars

NextMed == schedule_medication_reminders \/ MedUser \/ MedResident

\* ------------------------------------------------------------------
\* The restricted decorator.
\* ------------------------------------------------------------------
\* update.effective_user.username of the callers; NoName is a Telegram user
\* without a username (None), and the telegram_handle of a document that has
\* none: the query {"telegram_handle": None} matches such a document
NoName == "None"
Callers == {"alice", "bob", "carol", NoName}
UserKeys == {"id", "name", "email", "role"}
\* the documents users_collection may hold, in its natural order; "" is a
\* key the document lacks
UserDocs ==
    { [_id |-> "d1", telegram_handle |-> "alice", name |-> "Alice", email |-> "a@x", role |-> "nurse"],
      [_id |-> "d2", telegram_handle |-> "bob", name |-> "Bob", email |-> "b@x", role |-> ""],
      [_id |-> "d3", telegram_handle |-> NoName, name |-> "Dan", email |-> "d@x", role |-> "admin"] }
NoDoc == [_id |-> "", telegram_handle |-> "", name |-> "", email |-> "", role |-> ""]
\* a wrapped handler is called MaxCalls times in one behaviour
MaxCalls == 3

\* the first document of a non-empty set of documents, in the collection's
\* natural order
FirstDoc(docs) ==
    LET DocRank(d) == CASE d._id = "d1" -> 1 [] d._id = "d2" -> 2 [] OTHER -> 3
    IN  CHOOSE d \in docs : \A e \in docs : DocRank(d) <= DocRank(e)

\* find_one with an empty filter: the first document of the collection
find_one_any(coll, username) ==
    IF coll = {} THEN NoDoc ELSE FirstDoc(coll)

\* users_collection.find_one({"telegram_handle": username}): the first
\* document whose telegram_handle is the username, or None
find_one(coll, username) ==
    LET hits == {d \in coll : d.telegram_handle = username}
    IN  IF hits = {} THEN NoDoc ELSE FirstDoc(hits)

\* the keys the decorator copies, in its order: auth/user_auth.py stores the
\* id first, auth_service.py does not store it
CopiedKeys(variant) ==
    IF variant = "user_auth" THEN <<"id", "name", "email", "role">>
    ELSE <<"name", "email", "role">>

DocValue(doc, key) ==
    CASE key = "id" -> doc._id
      [] key = "name" -> doc.name
      [] key = "email" -> doc.email
      [] OTHER -> doc.role

RECURSIVE CopyKeys(_, _, _)
\* context.user_data[key] = user[key] for the keys in turn; user[key] raises
\* KeyError at the first key the document lacks, which ends the copying
CopyKeys(data, doc, keys) ==
    IF keys = <<>> \/ DocValue(doc, Head(keys)) = "" THEN data
    ELSE CopyKeys([data EXCEPT ![Head(keys)] = DocValue(doc, Head(keys))], doc, Tail(keys))

\* whether every copied key is there, so that func is reached
CopyCompletes(doc, variant) ==
    \A i \in 1..Len(CopiedKeys(variant)) : DocValue(doc, CopiedKeys(variant)[i]) # ""

\* wrapped(update, context): a handler decorated with restricted is called by
\* the caller, through a message (update.message is set) or through a
\* callback query (update.message is None, so that update.message.reply_text
\* raises AttributeError)
restricted(caller, variant, kind) ==
    /\ authPc = "on"
    /\ authCalls < MaxCalls
    /\ authCalls' = authCalls + 1
    /\ authLast' = caller
    /\ UNCHANGED authPc
    /\ LET user == find_one(users_collection, caller)
       IN  IF user = NoDoc
           THEN /\ denied' = IF kind = "message" THEN [denied EXCEPT ![caller] = @ + 1]
                             ELSE denied
                /\ UNCHANGED <<user_data, bodyRuns>>
           ELSE /\ user_data' = [user_data EXCEPT
                                   ![caller] = CopyKeys(@, user, CopiedKeys(variant))]
                /\ bodyRuns' = IF CopyCompletes(user, variant)
                               THEN [bodyRuns EXCEPT ![caller] = @ + 1] ELSE bodyRuns
                /\ UNCHANGED denied
    /\ UNCHANGED users_collection
    /\ UNCHANGED <<remVars, parseVars, fmtVars, dispVars, chatVars>>

\* the user table is maintained outside the bots
UsersChange ==
    /\ authPc = "on"
    /\ \E d \in UserDocs :
         users_collection' = IF d \in users_collection THEN users_collection \ {d}
                             ELSE users_collection \cup {d}
    /\ UNCHANGED <<authPc, user_data, bodyRuns, denied, authCalls, authLast>>
    /\ UNCHANGED <<remVars, parseVars, fmtVars, dispVars, chatVars>>

NextAuth ==
    \/ \E c \in Callers, v \in {"user_auth", "auth_service"}, k \in {"message", "callback"} :
         restricted(c, v, k)
    \/ UsersChange

\* ------------------------------------------------------------------
\* The query parser: QueryParser.parse_query (services/query_parser.py)
\* and parse_query (handlers/query_handler.py), which are the same code.
\* A text is a sequence of one-character strings.
\* ------------------------------------------------------------------
\* Number of phrases a message is made of.
MaxWords == 2

UpperLetters == <<"A","B","C","D","E","F","G","H","I","J","K","L","M",
                  "N","O","P","Q","R","S","T","U","V","W","X","Y","Z">>
LowerLetters == <<"a","b","c","d","e","f","g","h","i","j","k","l","m",
                  "n","o","p","q","r","s","t","u","v","w","x","y","z">>
Digits == <<"0","1","2","3","4","5","6","7","8","9">>

IsSpace(c) == c \in {" ", "\t", "\n"}
IsDigit(c) == \E k \in 1..10 : Digits[k] = c
IsLetter(c) == \E k \in 1..26 : LowerLetters[k] = c \/ UpperLetters[k] = c
\* \w of the regular expressions
IsWordChar(c) == IsLetter(c) \/ IsDigit(c) \/ c = "_"

\* str.lower()
lower(text) ==
    [i \in 1..Len(text) |->
        IF \E k \in 1..26 : UpperLetters[k] = text[i]
        THEN LowerLetters[CHOOSE k \in 1..26 : UpperLetters[k] = text[i]]
        ELSE text[i]]

\* str.strip()
strip(text) ==
    LET solid == {i \in 1..Len(text) : ~IsSpace(text[i])}
    IN  IF solid = {} THEN <<>>
        ELSE SubSeq(text, CHOOSE i \in solid : \A j \in solid : i <= j,
                          CHOOSE i \in solid : \A j \in solid : i >= j)

\* len(text.split())
WordCount(text) ==
    Cardinality({i \in 1..Len(text) :
                    ~IsSpace(text[i]) /\ (i = 1 \/ IsSpace(text[i - 1]))})

\* pat occurs in text at position i
MatchAt(text, pat, i) ==
    /\ i >= 1
    /\ i + Len(pat) - 1 <= Len(text)
    /\ \A k \in 1..Len(pat) : text[i + k - 1] = pat[k]

\* pat in text
Contains(text, pat) == \E i \in 1..Len(text) : MatchAt(text, pat, i)

\* re.search(rf"\b{pat}\b", text), for a pat that starts and ends with a
\* word character
HasWord(text, pat) ==
    \E i \in 1..Len(text) :
        /\ MatchAt(text, pat, i)
        /\ i = 1 \/ ~IsWordChar(text[i - 1])
        /\ i + Len(pat) > Len(text) \/ ~IsWordChar(text[i + Len(pat)])

\* the string literals of the rules
Literal ==
    [today |-> <<"t","o","d","a","y">>,
     tomorrow |-> <<"t","o","m","o","r","r","o","w">>,
     yesterday |-> <<"y","e","s","t","e","r","d","a","y">>,
     this_week |-> <<"t","h","i","s"," ","w","e","e","k">>,
     last |-> <<"l","a","s","t"," ">>,
     hour |-> <<" ","h","o","u","r">>,
     task |-> <<"t","a","s","k">>,
     tasks |-> <<"t","a","s","k","s">>,
     activity |-> <<"a","c","t","i","v","i","t","y">>,
     activities |-> <<"a","c","t","i","v","i","t","i","e","s">>,
     upcoming |-> <<"u","p","c","o","m","i","n","g">>,
     scheduled |-> <<"s","c","h","e","d","u","l","e","d">>,
     overdue |-> <<"o","v","e","r","d","u","e">>,
     pending |-> <<"p","e","n","d","i","n","g">>,
     completed |-> <<"c","o","m","p","l","e","t","e","d">>,
     priority |-> <<" ","p","r","i","o","r","i","t","y">>,
     high |-> <<"h","i","g","h">>,
     medium |-> <<"m","e","d","i","u","m">>,
     low |-> <<"l","o","w">>,
     in |-> <<"i","n">>,
     medication |-> <<"m","e","d","i","c","a","t","i","o","n">>,
     exercise |-> <<"e","x","e","r","c","i","s","e">>,
     social |-> <<"s","o","c","i","a","l">>,
     entertainment |-> <<"e","n","t","e","r","t","a","i","n","m","e","n","t">>,
     education |-> <<"e","d","u","c","a","t","i","o","n">>,
     resident |-> <<"r","e","s","i","d","e","n","t">>,
     patient |-> <<"p","a","t","i","e","n","t">>,
     how_is |-> <<"h","o","w"," ","i","s">>,
     tell_me_about |-> <<"t","e","l","l"," ","m","e"," ","a","b","o","u","t">>,
     profile |-> <<"p","r","o","f","i","l","e">>,
     details |-> <<"d","e","t","a","i","l","s">>,
     information |-> <<"i","n","f","o","r","m","a","t","i","o","n">>,
     status |-> <<"s","t","a","t","u","s">>,
     what_happened_to |-> <<"w","h","a","t"," ","h","a","p","p","e","n","e","d"," ","t","o">>,
     show_resident |-> <<"s","h","o","w"," ","r","e","s","i","d","e","n","t">>]

resident_indicators ==
    {Literal.resident, Literal.patient, Literal.how_is, Literal.tell_me_about, Literal.profile, Literal.details,
     Literal.information, Literal.status, Literal.what_happened_to, Literal.show_resident}

\* the time ranges are named, not computed; {} is "none"
NoRange == [kind |-> "none", hours |-> 0]
get_today_range == [kind |-> "today", hours |-> 0]
get_tomorrow_range == [kind |-> "tomorrow", hours |-> 0]
get_yesterday_range == [kind |-> "yesterday", hours |-> 0]
get_this_week_range == [kind |-> "this_week", hours |-> 0]
\* an exception leaving the function
Raised == [kind |-> "raise", hours |-> 0]

\* The hours between datetime.min (year 1) and datetime.now(): subtracting a
\* longer timedelta raises OverflowError.
HoursSinceMin == 2025 * 8766

get_last_hours_range(hours) ==
    IF hours > HoursSinceMin THEN Raised
    ELSE [kind |-> "last_hours", hours |-> hours]

\* int(digits)
RECURSIVE ParseInt(_)
ParseInt(digits) ==
    IF digits = <<>> THEN 0
    ELSE 10 * ParseInt(SubSeq(digits, 1, Len(digits) - 1))
         + ((CHOOSE k \in 1..10 : Digits[k] = digits[Len(digits)]) - 1)

\* the end of the longest run of digits that starts at s (s - 1: none)
DigitRunEnd(text, s) ==
    CHOOSE e \in (s - 1)..Len(text) :
        /\ \A k \in s..e : IsDigit(text[k])
        /\ e = Len(text) \/ ~IsDigit(text[e + 1])

\* re.search(r"last (\d+) hours?", text) matches at i
LastHoursAt(text, i) ==
    /\ MatchAt(text, Literal.last, i)
    /\ i + 5 <= Len(text)
    /\ DigitRunEnd(text, i + 5) >= i + 5
    /\ MatchAt(text, Literal.hour, DigitRunEnd(text, i + 5) + 1)

extract_time_range(text) ==
    IF HasWord(text, Literal.today) THEN get_today_range
    ELSE IF HasWord(text, Literal.tomorrow) THEN get_tomorrow_range
    ELSE IF HasWord(text, Literal.yesterday) THEN get_yesterday_range
    ELSE IF HasWord(text, Literal.this_week) THEN get_this_week_range
    ELSE IF \E i \in 1..Len(text) : LastHoursAt(text, i)
         THEN LET i == CHOOSE i \in 1..Len(text) :
                          /\ LastHoursAt(text, i)
                          /\ \A j \in 1..(i - 1) : ~LastHoursAt(text, j)
              IN  get_last_hours_range(
                      ParseInt(SubSeq(text, i + 5, DigitRunEnd(text, i + 5))))
    ELSE NoRange

\* the keys of the filters dict (the values are not modelled)
extract_task_filters(text) ==
    (IF \E s \in {Literal.overdue, Literal.pending, Literal.completed} : HasWord(text, s)
     THEN {"status"} ELSE {})
    \cup
    (IF \E p \in {Literal.high, Literal.medium, Literal.low} : HasWord(text, p \o Literal.priority)
     THEN {"priority"} ELSE {})

\* r"in\s+([A-Za-z\s]+)(room|hall|area)?" matches: "in", white space, and
\* one more character that is a letter or white space
extract_activity_filters(text) ==
    (IF \E i \in 1..Len(text) :
           /\ MatchAt(text, Literal.in, i)
           /\ i + 3 <= Len(text)
           /\ IsSpace(text[i + 2])
           /\ IsSpace(text[i + 3]) \/ IsLetter(text[i + 3])
     THEN {"location"} ELSE {})
    \cup
    (IF \E c \in {Literal.medication, Literal.exercise, Literal.social, Literal.entertainment,
                  Literal.education} : HasWord(text, c)
     THEN {"category"} ELSE {})

is_resident_query(text) ==
    LET t == strip(lower(text))
    IN  \/ \E ind \in resident_indicators : Contains(t, ind)
        \/ WordCount(t) \in 1..3

GeneralQuestion == [intent |-> "general_question", time_range |-> NoRange, filters |-> {}]

\* the body of the try block, with the exception of the time range passed on
ParseRules(text) ==
    IF Contains(text, Literal.today) /\ (Contains(text, Literal.task) \/ Contains(text, Literal.tasks))
    THEN [intent |-> "task_query", time_range |-> get_today_range, filters |-> {}]
    ELSE IF HasWord(text, Literal.task) \/ HasWord(text, Literal.tasks)
    THEN [intent |-> "task_query", time_range |-> extract_time_range(text),
          filters |-> extract_task_filters(text)]
    ELSE IF \/ HasWord(text, Literal.activity) \/ HasWord(text, Literal.activities)
            \/ HasWord(text, Literal.upcoming) \/ HasWord(text, Literal.scheduled)
    THEN [intent |-> "activity_query", time_range |-> extract_time_range(text),
          filters |-> extract_activity_filters(text)]
    ELSE IF is_resident_query(text)
    THEN [intent |-> "resident_query", time_range |-> extract_time_range(text),
          filters |-> {"resident_name"}]
    ELSE GeneralQuestion

parse_query(text) ==
    LET r == ParseRules(strip(lower(text)))
    IN  IF r.time_range = Raised THEN GeneralQuestion ELSE r

RECURSIVE Join(_)
Join(ps) ==
    IF ps = <<>> THEN <<>>
    ELSE IF Len(ps) = 1 THEN ps[1]
    ELSE ps[1] \o <<" ">> \o Join(Tail(ps))

\* The messages: up to MaxWords phrases, a space between two, with or
\* without white space around the whole.
Messages ==
    LET Phrases ==
            {<<"T","o","d","a","y">>,
             Literal.tasks,
             <<"m","u","l","t","i","t","a","s","k">>,
             Literal.scheduled,
             Literal.patient,
             Literal.overdue,
             Literal.tomorrow,
             <<"i","n"," ","h","a","l","l">>,
             <<"l","a","s","t"," ","3"," ","h","o","u","r","s">>,
             <<"l","a","s","t"," ","9","9","9","9","9","9","9","9"," ","h","o","u","r","s">>}
        bare == {Join(ps) : ps \in UNION {[1..n -> Phrases] : n \in 0..MaxWords}}
    IN  bare \cup {<<" ">> \o m \o <<" ">> : m \in bare}

\* one call of parse_query, of either implementation
ParseQuery ==
    /\ parsePc = "ready"
    /\ \E impl \in {"QueryParser", "query_handler"} : parseImpl' = impl
    /\ parsed' = parse_query(message_text)
    /\ parsePc' = "done"
    /\ UNCHANGED message_text
    /\ UNCHANGED <<remVars, authVars, fmtVars, dispVars, chatVars>>

\* ------------------------------------------------------------------
\* The response formatter: truncate_response and the format_* functions of
\* handlers/response_handler.py, the same code as ResponseFormatter in
\* services/response_formatter.py.
\* A text is the sequence of the lengths of its lines: <<3, 0, 5>> is
\* "abc\n\nhello"; the empty text is <<0>>.
\* ------------------------------------------------------------------
\* Number of lines of a text handed to truncate_response.
MaxLines == 3
\* Number of records handed to a format_* function.
MaxItems == 2

MAX_MESSAGE_LENGTH == 4000

\* len("\n\n...(message truncated due to length)")
NoticeLen == 38

RECURSIVE TextLen(_)
\* len(text)
TextLen(lines) ==
    IF Len(lines) = 1 THEN lines[1]
    ELSE lines[1] + 1 + TextLen(Tail(lines))

RECURSIVE Slice(_, _)
\* text[:k]
Slice(lines, k) ==
    IF k <= lines[1] THEN <<k>>
    ELSE IF Len(lines) = 1 THEN lines
    ELSE <<lines[1]>> \o Slice(Tail(lines), k - lines[1] - 1)

\* text.rfind("\n"), a 0-based index, -1 without a newline
rfind_newline(lines) ==
    IF Len(lines) = 1 THEN 0 - 1
    ELSE TextLen(SubSeq(lines, 1, Len(lines) - 1))

\* text + more
Concat(lines, more) ==
    SubSeq(lines, 1, Len(lines) - 1)
    \o <<lines[Len(lines)] + more[1]>>
    \o Tail(more)

\* truncate_response cutting ten characters below the limit, which leaves no
\* room for the notice
truncate_response_short(text) ==
    IF TextLen(text) <= MAX_MESSAGE_LENGTH THEN [kept |-> text, notice |-> FALSE]
    ELSE LET truncated_text == Slice(text, MAX_MESSAGE_LENGTH - 10)
             last_newline == rfind_newline(truncated_text)
         IN  IF last_newline > MAX_MESSAGE_LENGTH - 200
             THEN [kept |-> Slice(truncated_text, last_newline), notice |-> TRUE]
             ELSE [kept |-> truncated_text, notice |-> TRUE]

\* a result is the lines kept of the input, and whether the notice follows
truncate_response(text) ==
    IF TextLen(text) <= MAX_MESSAGE_LENGTH THEN [kept |-> text, notice |-> FALSE]
    ELSE LET truncated_text == Slice(text, MAX_MESSAGE_LENGTH - 100)
             last_newline == rfind_newline(truncated_text)
         IN  IF last_newline > MAX_MESSAGE_LENGTH - 200
             THEN [kept |-> Slice(truncated_text, last_newline), notice |-> TRUE]
             ELSE [kept |-> truncated_text, notice |-> TRUE]

\* len() of a result
ResultLen(r) == TextLen(r.kept) + (IF r.notice THEN NoticeLen ELSE 0)

\* len(str(n)) for the counts that occur
DigitsOf(n) == IF n < 10 THEN 1 ELSE 2

\* the templates returned for an empty input
RESPONSE_TEMPLATES ==
    [no_results |-> [kept |-> <<40>>, notice |-> FALSE],
     resident_not_found |-> [kept |-> <<49>>, notice |-> FALSE]]

RECURSIVE ItemBlocks(_, _, _)
\* The lines and the empty line that a loop adds for each record. The
\* records carry a task_title, title or full_name of the given length and no
\* other key, so that the other fields print their defaults.
ItemBlocks(loop, titles, idx) ==
    IF titles = <<>> THEN <<0>>
    ELSE Concat(
            CASE loop = "tasks" ->
                    <<DigitsOf(idx) + 3 + titles[1] + 1,
                      11 + 7 + 13 + 0,
                      8 + 13 + 7 + 10,
                      9 + 0,
                      0,
                      0>>
              [] loop = "activities" ->
                    <<DigitsOf(idx) + 3 + titles[1] + 1,
                      13 + 13 + 13 + 11,
                      15 + 7,
                      9 + 0,
                      0,
                      0>>
              [] loop = "residents" ->
                    <<DigitsOf(idx) + 3 + titles[1] + 9 + 7 + 1, 0, 0>>
              [] loop = "resident_tasks" ->
                    <<DigitsOf(idx) + 3 + titles[1] + 1,
                      11 + 7 + 16 + 10,
                      9 + 7,
                      0,
                      0>>,
            ItemBlocks(loop, Tail(titles), idx + 1))

format_task_response(titles) ==
    IF titles = <<>> THEN RESPONSE_TEMPLATES.no_results
    ELSE truncate_response(
            Concat(Concat(<<9 + DigitsOf(Len(titles)) + 8, 0, 0>>,
                          ItemBlocks("tasks", SubSeq(titles, 1, Min(Len(titles), 10)), 1)),
                   IF Len(titles) > 10
                   THEN <<7 + DigitsOf(Len(titles) - 10) + 36>>
                   ELSE <<0>>))

format_activity_response(titles) ==
    IF titles = <<>> THEN RESPONSE_TEMPLATES.no_results
    ELSE truncate_response(
            Concat(Concat(<<10 + DigitsOf(Len(titles)) + 13, 0, 0>>,
                          ItemBlocks("activities", SubSeq(titles, 1, Min(Len(titles), 10)), 1)),
                   IF Len(titles) > 10
                   THEN <<7 + DigitsOf(Len(titles) - 10) + 41>>
                   ELSE <<0>>))

\* format_resident_response for a list of residents
format_resident_list(names) ==
    IF names = <<>> THEN RESPONSE_TEMPLATES.resident_not_found
    ELSE truncate_response(
            Concat(Concat(<<9 + DigitsOf(Len(names)) + 12, 0, 0>>,
                          ItemBlocks("residents", SubSeq(names, 1, Min(Len(names), 10)), 1)),
                   IF Len(names) > 10
                   THEN <<7 + DigitsOf(Len(names) - 10) + 40>>
                   ELSE <<0>>))

\* format_resident_response for one resident, a dict with a full_name of
\* the given length and no other key, and the resident's tasks
format_resident_profile(name, titles) ==
    truncate_response(
        Concat(<<21 + name + 1, 6 + 7, 0, 0>>,
               IF titles # <<>>
               THEN Concat(Concat(<<18 + name + 2, 0, 0>>,
                                  ItemBlocks("resident_tasks",
                                             SubSeq(titles, 1, Min(Len(titles), 5)), 1)),
                           IF Len(titles) > 5
                           THEN <<7 + DigitsOf(Len(titles) - 5) + 35>>
                           ELSE <<0>>)
               ELSE <<40>>))

\* the texts handed to truncate_response, by the lengths of their lines, and
\* the lists of records, by the lengths of their titles or names
Texts == UNION {[1..n -> {0, 150, 3800, 3801, 3899, 4000, 4001}] : n \in 1..MaxLines}
ItemLists == UNION {[1..n -> {5, 3890, 5000}] : n \in 0..MaxItems}

\* one call of truncate_response / _truncate_response
TruncateResponse ==
    /\ fmtPc = "ready"
    /\ fmtOp' = "truncate_response"
    /\ fmtOut' = truncate_response(fmtText)
    /\ fmtPc' = "done"
    /\ UNCHANGED <<fmtText, fmtItems>>
    /\ UNCHANGED <<remVars, authVars, parseVars, dispVars, chatVars>>

\* one call of a format_* function
FormatResponse ==
    /\ fmtPc = "ready"
    /\ \E op \in {"format_task_response", "format_activity_response",
                  "format_resident_list", "format_resident_profile"} :
         /\ fmtOp' = op
         /\ fmtOut' = CASE op = "format_task_response" -> format_task_response(fmtItems)
                        [] op = "format_activity_response" -> format_activity_response(fmtItems)
                        [] op = "format_resident_list" -> format_resident_list(fmtItems)
                        [] OTHER -> format_resident_profile(fmtText[1], fmtItems)
    /\ fmtPc' = "done"
    /\ UNCHANGED <<fmtText, fmtItems>>
    /\ UNCHANGED <<remVars, authVars, parseVars, dispVars, chatVars>>

NextFormat == TruncateResponse \/ FormatResponse

\* ------------------------------------------------------------------
\* The assistant bot's dispatch: the handlers main() registers, in the
\* order of registration. All are in one group, so an update goes to the
\* first handler whose check_update accepts it.
\* ------------------------------------------------------------------
\* Number of updates in one behaviour.
MaxUpdates == 4

\* the states of the voice-note conversation (ConversationHandler.END: no
\* conversation)
END == "END"
SELECTING_RESIDENT == "SELECTING_RESIDENT"
RECORDING_NOTE == "RECORDING_NOTE"
CONFIRMING_NOTE == "CONFIRMING_NOTE"

CommandHandler(command, callback) == [type |-> "command", arg |-> command, callback |-> callback]
CallbackQueryHandler(callback, pattern) == [type |-> "callback_query", arg |-> pattern, callback |-> callback]
MessageHandler(filter, callback) == [type |-> "message", arg |-> filter, callback |-> callback]

\* the updates: a command message, a voice message, a press of an inline
\* button, a text message
Updates ==
    {[kind |-> "command", data |-> c] :
        c \in {"start", "help", "residents", "tasks", "stats", "voicenote", "whoami",
               "cancel", "foo"}}
    \cup {[kind |-> "voice", data |-> ""], [kind |-> "text", data |-> ""]}
    \cup {[kind |-> "callback_query", data |-> d] :
            d \in {"voicenote", "check_auth", "cancel", "resident_r1", "save_summary",
                   "save_transcript"}}

\* handler.check_update(update) of the three simple handler classes; the
\* pattern "" is no pattern
Accepts(h, u) ==
    CASE h.type = "command" -> u.kind = "command" /\ u.data = h.arg
      [] h.type = "callback_query" -> u.kind = "callback_query" /\ (h.arg = "" \/ u.data = h.arg)
      [] h.type = "message" ->
            CASE h.arg = "VOICE" -> u.kind = "voice"
              [] h.arg = "COMMAND" -> u.kind = "command"
              [] h.arg = "TEXT & ~COMMAND" -> u.kind = "text"
              [] OTHER -> FALSE
      [] OTHER -> FALSE

\* the callback of the first handler of the list that accepts, "" if none
FirstAccepting(hs, u) ==
    IF \E i \in 1..Len(hs) : Accepts(hs[i], u)
    THEN hs[CHOOSE i \in 1..Len(hs) :
                /\ Accepts(hs[i], u)
                /\ \A j \in 1..(i - 1) : ~Accepts(hs[j], u)].callback
    ELSE ""

\* ConversationHandler.check_update: the entry points without a
\* conversation, else the handlers of the state and then the fallbacks
voice_note_handler(state, u) ==
    LET entry_points == <<CommandHandler("voicenote", "voicenote_start"),
                          CallbackQueryHandler("voicenote_start", "voicenote")>>
        states ==
            CASE state = SELECTING_RESIDENT -> <<CallbackQueryHandler("resident_selected", "")>>
              [] state = RECORDING_NOTE -> <<MessageHandler("VOICE", "process_voice_note")>>
              [] state = CONFIRMING_NOTE -> <<CallbackQueryHandler("save_note", "")>>
              [] OTHER -> <<>>
        fallbacks == <<CommandHandler("cancel", "cancel")>>
    IN  IF state = END THEN FirstAccepting(entry_points, u)
        ELSE IF FirstAccepting(states, u) # ""
             THEN FirstAccepting(states, u)
             ELSE FirstAccepting(fallbacks, u)

\* Application.process_update within the group: the callback that runs,
\* given the handlers registered before and after the conversation handler
Dispatch(state, u) ==
    LET before ==
            <<CommandHandler("start", "start"),
              CommandHandler("residents", "list_residents"),
              CommandHandler("whoami", "whoami_command"),
              CommandHandler("help", "help_command")>>
        after ==
            <<MessageHandler("VOICE", "handle_voice"),
              MessageHandler("COMMAND", "unknown"),
              CommandHandler("tasks", "list_tasks"),
              CommandHandler("stats", "show_stats"),
              CallbackQueryHandler("check_auth_callback", ""),
              MessageHandler("TEXT & ~COMMAND", "handle_message")>>
    IN  IF FirstAccepting(before, u) # "" THEN FirstAccepting(before, u)
        ELSE IF voice_note_handler(state, u) # "" THEN voice_note_handler(state, u)
        ELSE FirstAccepting(after, u)

\* context.user_data without the keys of a voice note
NoNote ==
    [current_resident_id |-> "", resident_name |-> "", transcription |-> "",
     ai_summary |-> ""]

\* The callbacks of the conversation. Each gives the state it returns (""
\* for None and for an exception that leaves the callback, both of which
\* leave the conversation where it is), the voice-note keys of user_data
\* afterwards, and the result of add_resident_note ("none" when it is not
\* called).

\* voicenote_start, under @restricted: env is "denied" (the decorator
\* returns None), "no_residents" or "residents"
voicenote_start(data, env) ==
    [ret |-> CASE env = "denied" -> ""
               [] env = "no_residents" -> END
               [] OTHER -> SELECTING_RESIDENT,
     data |-> data, note |-> "none"]

\* resident_selected: env is whether find_one finds the resident. Callback
\* data that is neither cancel nor a resident's button is stored as
\* current_resident_id, and ObjectId(...) raises on it.
resident_selected(query_data, data, env) ==
    IF query_data = "cancel" THEN [ret |-> END, data |-> data, note |-> "none"]
    ELSE IF query_data # "resident_r1"
    THEN [ret |-> "", data |-> [data EXCEPT !.current_resident_id = query_data],
          note |-> "none"]
    ELSE IF env = "missing"
    THEN [ret |-> END, data |-> [data EXCEPT !.current_resident_id = "r1"], note |-> "none"]
    ELSE [ret |-> RECORDING_NOTE,
          data |-> [data EXCEPT !.current_resident_id = "r1", !.resident_name = "name"],
          note |-> "none"]

\* a process_voice_note that asks for confirmation of speech it did not understand
process_voice_note_confirms_no_match(data, env) ==
    CASE env \in {"recognized", "no_match"} ->
            [ret |-> CONFIRMING_NOTE,
             data |-> IF env = "recognized"
                      THEN [data EXCEPT !.transcription = "text", !.ai_summary = "summary"]
                      ELSE data,
             note |-> "none"]
      [] env = "reply_raised" ->
            [ret |-> RECORDING_NOTE,
             data |-> [data EXCEPT !.transcription = "text", !.ai_summary = "summary"],
             note |-> "none"]
      [] OTHER -> [ret |-> RECORDING_NOTE, data |-> data, note |-> "none"]

\* process_voice_note: env is "recognized", "timeout" (asyncio.TimeoutError),
\* "no_match" (another result.reason), "raised" (an exception of the
\* download, the conversion, the recognizer or summarize_text) or
\* "reply_raised" (speech recognized and stored, the reply with the buttons
\* raises)
process_voice_note(data, env) ==
    CASE env = "recognized" ->
            [ret |-> CONFIRMING_NOTE,
             data |-> [data EXCEPT !.transcription = "text", !.ai_summary = "summary"],
             note |-> "none"]
      [] env = "reply_raised" ->
            [ret |-> RECORDING_NOTE,
             data |-> [data EXCEPT !.transcription = "text", !.ai_summary = "summary"],
             note |-> "none"]
      [] OTHER -> [ret |-> RECORDING_NOTE, data |-> data, note |-> "none"]

\* a save_note that writes the note before it looks at the button
save_note_before_cancel(query_data, data, env) ==
    [ret |-> END, data |-> IF query_data = "cancel" THEN data ELSE NoNote, note |-> env]

\* save_note: env is the result of db_service.add_resident_note, "saved"
\* (True) or "failed" (False); user_data.clear() follows either
save_note(query_data, data, env) ==
    IF query_data = "cancel" THEN [ret |-> END, data |-> data, note |-> "none"]
    ELSE [ret |-> END, data |-> NoNote, note |-> env]

\* how the environment of a callback may answer
Answers(callback) ==
    CASE callback = "voicenote_start" -> {"denied", "no_residents", "residents"}
      [] callback = "resident_selected" -> {"found", "missing"}
      [] callback = "process_voice_note" ->
            {"recognized", "timeout", "no_match", "raised", "reply_raised"}
      [] callback = "save_note" -> {"saved", "failed"}
      [] OTHER -> {""}

\* one update arrives and is handled
process_update ==
    /\ dispPc = "on"
    /\ updatesSeen < MaxUpdates
    /\ \E u \in Updates :
         LET callback == Dispatch(conv_state, u)
         IN  /\ lastUpdate' = u
             /\ lastHandler' = callback
             /\ \E env \in Answers(callback) :
                  LET r == CASE callback = "voicenote_start" -> voicenote_start(note_data, env)
                             [] callback = "resident_selected" ->
                                    resident_selected(u.data, note_data, env)
                             [] callback = "process_voice_note" ->
                                    process_voice_note(note_data, env)
                             [] callback = "save_note" -> save_note(u.data, note_data, env)
                             [] callback = "cancel" ->
                                    [ret |-> END, data |-> note_data, note |-> "none"]
                             [] OTHER -> [ret |-> "", data |-> note_data, note |-> "none"]
                      state == IF r.ret = "" THEN conv_state ELSE r.ret
                  IN  /\ conv_state' = state
                      /\ note_data' = r.data
                      /\ voiceLog' =
                           [selected |-> /\ state # END
                                         /\ \/ voiceLog.selected
                                            \/ callback = "resident_selected"
                                               /\ r.ret = RECORDING_NOTE,
                            recognized |-> /\ state # END
                                           /\ \/ voiceLog.recognized
                                              \/ callback = "process_voice_note"
                                                 /\ env \in {"recognized", "reply_raised"},
                            notes |-> IF r.note = "none" THEN voiceLog.notes
                                      ELSE voiceLog.notes + 1,
                            env |-> env]
    /\ updatesSeen' = updatesSeen + 1
    /\ UNCHANGED dispPc
    /\ UNCHANGED <<remVars, authVars, parseVars, fmtVars, chatVars>>

\* ------------------------------------------------------------------
\* The conversation with the assistant: MessageHandler.handle_message and
\* the handlers it calls (handlers/message_handler.py).
\* ------------------------------------------------------------------
\* Number of text messages in one behaviour.
MaxMessages == 3

\* the context a user starts with, every value None ("" here)
NoContext ==
    [last_query |-> "", last_resident |-> "", last_task_type |-> "",
     last_time_range |-> NoRange]

\* the text messages: "tasks", "scheduled tomorrow", "patient",
\* "in hall in hall", "also tomorrow", "Candy"
ChatMessages ==
    {Literal.tasks,
     Join(<<Literal.scheduled, Literal.tomorrow>>),
     Literal.patient,
     Join(<<Literal.in, <<"h","a","l","l">>, Literal.in, <<"h","a","l","l">>>>),
     Join(<<<<"a","l","s","o">>, Literal.tomorrow>>),
     <<"C","a","n","d","y">>}

is_follow_up_question(message) ==
    \E indicator \in {<<"w","h","a","t"," ","a","b","o","u","t">>,
                      <<"h","o","w"," ","a","b","o","u","t">>,
                      <<"a","n","d">>,
                      <<"a","l","s","o">>,
                      <<"w","h","a","t"," ","e","l","s","e">>} :
        Contains(message, indicator)

\* The reply_text calls of one of the _handle_*_query methods, in order, and
\* whether an exception leaves the method. db is the answer of the
\* database ("found", "empty", "raise"), tg that of Telegram to reply_text
\* ("ok", "raise"). The except clause of a method replies the error
\* template; _handle_general_query has no except clause.
HandleQuery(intent, resident_name, db, tg) ==
    LET Guarded(first) ==
            IF tg = "ok" THEN [calls |-> <<first>>, raised |-> FALSE]
            ELSE [calls |-> <<first, "error">>, raised |-> TRUE]
        Failed == [calls |-> <<"error">>, raised |-> tg = "raise"]
        Outer(r) ==
            IF r.raised THEN [calls |-> r.calls \o <<"error">>, raised |-> TRUE]
            ELSE r
        list_all_residents ==
            IF db = "raise" THEN Failed
            ELSE IF db = "empty" THEN Guarded("no_residents")
            ELSE Guarded("result")
    IN  CASE intent = "task_query" ->
                IF db = "raise" THEN Failed
                ELSE IF db = "empty" THEN Guarded("suggestion")
                ELSE Guarded("result")
          [] intent = "activity_query" ->
                IF db = "raise" THEN Failed ELSE Guarded("result")
          [] intent = "resident_query" ->
                IF resident_name = "" THEN Outer(list_all_residents)
                ELSE IF db = "raise" THEN Failed
                ELSE IF db = "empty" THEN Guarded("suggestion")
                ELSE Guarded("result")
          [] OTHER ->
                [calls |-> <<"help">>, raised |-> tg = "raise"]

\* _handle_follow_up: the handler of the stored intent, nothing for an
\* intent without a branch
handle_follow_up(context, db, tg) ==
    IF context.last_query = "" THEN HandleQuery("general_question", "", db, tg)
    ELSE IF context.last_query \in {"task_query", "activity_query", "resident_query"}
    THEN HandleQuery(context.last_query, context.last_resident, db, tg)
    ELSE [calls |-> <<>>, raised |-> FALSE]

\* what handle_message makes of each text: the text is stripped and
\* lowered, tested for a follow-up and parsed
Understood ==
    [text \in ChatMessages |->
        [follow_up |-> is_follow_up_question(lower(strip(text))),
         parsed |-> parse_query(lower(strip(text)))]]

\* one call of handle_message: act is the answer of Telegram to send_action
handle_message(user, text, act, db, tg) ==
    LET before == IF user \in DOMAIN user_context THEN user_context[user] ELSE NoContext
        follow_up == Understood[text].follow_up
        p == Understood[text].parsed
        context == [last_query |-> p.intent,
                    last_resident |-> IF "resident_name" \in p.filters THEN "name" ELSE "",
                    last_task_type |-> "",
                    last_time_range |-> p.time_range]
        r == IF follow_up THEN handle_follow_up(before, db, tg)
             ELSE HandleQuery(p.intent, context.last_resident, db, tg)
    IN  /\ chatPc = "on"
        /\ msgCount < MaxMessages
        /\ msgCount' = msgCount + 1
        /\ IF act = "raise"
           THEN /\ UNCHANGED user_context
                /\ lastCall' = [user |-> user, follow_up |-> FALSE, before |-> before,
                                intent |-> "", time_range |-> NoRange,
                                calls |-> <<"error">>]
           ELSE /\ user_context' =
                      [u \in DOMAIN user_context \cup {user} |->
                          IF u # user THEN user_context[u]
                          ELSE IF follow_up THEN before ELSE context]
                /\ lastCall' =
                      [user |-> user, follow_up |-> follow_up, before |-> before,
                       intent |-> IF ~follow_up THEN p.intent
                                  ELSE IF before.last_query = "" THEN "general_question"
                                  ELSE IF r.calls = <<>> THEN ""
                                  ELSE before.last_query,
                       time_range |-> IF follow_up THEN before.last_time_range
                                      ELSE p.time_range,
                       calls |-> IF r.raised THEN r.calls \o <<"error">> ELSE r.calls]
        /\ UNCHANGED chatPc
        /\ UNCHANGED <<remVars, authVars, parseVars, fmtVars, dispVars>>

NextPoll == Tick \/ process_events \/ PollFetch \/ PollRecord

\* A specification exercises one component; of the others the program
\* counter is "off", which disables their actions, and the rest of their
\* state is at rest.
Off(on) ==
    /\ IF on = "poll" THEN TRUE ELSE
           /\ clock = 0
           /\ pollPc = "off"
           /\ pollKind = "activity"
           /\ backend = [r \in Records |->
                 [owner |-> OwnerOf(r), start_time |-> FarStart, lead |-> NULL, reminder_sent |-> TRUE]]
           /\ now_utc = 0
           /\ userIdx = 1
           /\ fetched = <<>>
           /\ recIdx = 1
           /\ sent = [r \in Records |-> 0]
           /\ markReq = [r \in Records |-> 0]
           /\ polls = 0
           /\ lastFetch = "none"
    /\ IF on = "events" THEN TRUE ELSE
           /\ evPc = [p \in Runners |-> "off"]
           /\ evBackend = [e \in Events |-> [datetime |-> 0, reminder_sent |-> TRUE]]
           /\ evList = [p \in Runners |-> <<>>]
           /\ evNow = [p \in Runners |-> 0]
           /\ evIdx = [p \in Runners |-> 1]
           /\ evSent = [e \in Events |-> 0]
           /\ evRuns = 0
           /\ evFetch = [p \in Runners |-> "none"]
           /\ evPatchFailed = FALSE
           /\ evDelivery = [p \in Runners |-> "none"]
    /\ IF on = "fall" THEN TRUE ELSE
           /\ fallPc = "off"
           /\ fallBackend = [f \in Falls |->
                                [status |-> "false_positive", timestamp |-> 0, fall_id |-> f]]
           /\ fallDelivery = [c \in Chats |-> "none"]
           /\ buttons = [k \in Falls \X Chats |-> 0]
           /\ fallResponse = NoResponse
           /\ fallPresses = 0
           /\ fallLogs = <<>>
           /\ fallNow = 0
           /\ fallIdx = 1
           /\ alerts = [k \in Falls \X Chats |-> 0]
           /\ fallRuns = 0
           /\ fallFetch = "none"
    /\ IF on = "med" THEN TRUE ELSE
           /\ medPc = "off"
           /\ today = 0
           /\ medUserIdx = 1
           /\ medResidents = <<>>
           /\ medResIdx = 1
           /\ jobs = [k \in Doses |-> 0]
           /\ medRuns = 0
           /\ medFetch = "none"
           /\ medRaised = "none"
    /\ IF on = "auth" THEN TRUE ELSE
           /\ authPc = "off"
           /\ users_collection = {}
           /\ user_data = [c \in Callers |-> [k \in UserKeys |-> ""]]
           /\ bodyRuns = [c \in Callers |-> 0]
           /\ denied = [c \in Callers |-> 0]
           /\ authCalls = 0
           /\ authLast = ""
    /\ IF on = "parse" THEN TRUE ELSE
           /\ parsePc = "off"
           /\ message_text = <<>>
           /\ parseImpl = ""
           /\ parsed = [intent |-> "", time_range |-> NoRange, filters |-> {}]
    /\ IF on = "format" THEN TRUE ELSE
           /\ fmtPc = "off"
           /\ fmtText = <<0>>
           /\ fmtItems = <<>>
           /\ fmtOp = ""
           /\ fmtOut = [kept |-> <<0>>, notice |-> FALSE]
    /\ IF on = "dispatch" THEN TRUE ELSE
           /\ dispPc = "off"
           /\ conv_state = END
           /\ lastUpdate = [kind |-> "", data |-> ""]
           /\ lastHandler = ""
           /\ updatesSeen = 0
           /\ note_data = NoNote
           /\ voiceLog = [selected |-> FALSE, recognized |-> FALSE, notes |-> 0, env |-> ""]
    /\ IF on = "chat" THEN TRUE ELSE
           /\ chatPc = "off"
           /\ user_context = [u \in {} |-> NoContext]
           /\ lastCall = [user |-> "", follow_up |-> FALSE, before |-> NoContext,
                          intent |-> "", time_range |-> NoRange, calls |-> <<>>]
           /\ msgCount = 0

InitPoll ==
    /\ clock = 0
    /\ pollPc = "idle"
    /\ pollKind \in {"activity", "task"}
    /\ \E l1 \in {NULL, 0, 2}, s3 \in {5, FarStart}, f2 \in BOOLEAN :
         backend = [r \in Records |->
            [owner |-> OwnerOf(r),
             start_time |-> IF r = "r1" THEN 6 ELSE IF r = "r2" THEN 4 ELSE s3,
             lead |-> IF r = "r1" THEN l1 ELSE IF r = "r2" THEN 2 ELSE NULL,
             reminder_sent |-> IF r = "r2" THEN f2 ELSE FALSE]]
    /\ now_utc = 0
    /\ userIdx = 1
    /\ fetched = <<>>
    /\ recIdx = 1
    /\ sent = [r \in Records |-> 0]
    /\ markReq = [r \in Records |-> 0]
    /\ polls = 0
    /\ lastFetch = "none"
    /\ Off("poll")

InitEv ==
    /\ evPc = [p \in Runners |-> "idle"]
    /\ \E f2 \in BOOLEAN :
         evBackend = [e \in Events |->
            [datetime |-> IF e = "e1" THEN 63 ELSE 5,
             reminder_sent |-> IF e = "e1" THEN FALSE ELSE f2]]
    /\ evList = [p \in Runners |-> <<>>]
    /\ evNow = [p \in Runners |-> 0]
    /\ evIdx = [p \in Runners |-> 1]
    /\ evSent = [e \in Events |-> 0]
    /\ evRuns = 0
    /\ evFetch = [p \in Runners |-> "none"]
    /\ evPatchFailed = FALSE
    /\ evDelivery = [p \in Runners |-> "none"]
    /\ Off("events")

InitFall ==
    /\ fallPc = "idle"
    /\ \E s1 \in {"pending", "confirmed"}, s2 \in {"pending", "false_positive"} :
         fallBackend = [f \in Falls |->
            [status |-> IF f = "f1" THEN s1 ELSE s2,
             timestamp |-> IF f = "f1" THEN 1 ELSE 3,
             fall_id |-> IF f = "f1" THEN "f1" ELSE ""]]
    /\ fallDelivery = [c \in Chats |-> "none"]
    /\ buttons = [k \in Falls \X Chats |-> 0]
    /\ fallResponse = NoResponse
    /\ fallPresses = 0
    /\ fallLogs = <<>>
    /\ fallNow = 0
    /\ fallIdx = 1
    /\ alerts = [k \in Falls \X Chats |-> 0]
    /\ fallRuns = 0
    /\ fallFetch = "none"
    /\ Off("fall")

InitMed ==
    /\ medPc = "idle"
    /\ today \in {1, 2, 8}
    /\ medUserIdx = 1
    /\ medResidents = <<>>
    /\ medResIdx = 1
    /\ jobs = [k \in Doses |-> 0]
    /\ medRuns = 0
    /\ medFetch = "none"
    /\ medRaised = "none"
    /\ Off("med")

InitAuth ==
    /\ authPc = "on"
    /\ users_collection \in SUBSET UserDocs
    /\ user_data = [c \in Callers |-> [k \in UserKeys |-> ""]]
    /\ bodyRuns = [c \in Callers |-> 0]
    /\ denied = [c \in Callers |-> 0]
    /\ authCalls = 0
    /\ authLast = ""
    /\ Off("auth")

InitParse ==
    /\ parsePc = "ready"
    /\ message_text \in Messages
    /\ parseImpl = ""
    /\ parsed = [intent |-> "", time_range |-> NoRange, filters |-> {}]
    /\ Off("parse")

InitFormat ==
    /\ fmtPc = "ready"
    /\ fmtText \in Texts
    /\ fmtItems \in ItemLists
    /\ fmtOp = ""
    /\ fmtOut = [kept |-> <<0>>, notice |-> FALSE]
    /\ Off("format")

InitDispatch ==
    /\ dispPc = "on"
    /\ conv_state = END
    /\ lastUpdate = [kind |-> "", data |-> ""]
    /\ lastHandler = ""
    /\ updatesSeen = 0
    /\ note_data = NoNote
    /\ voiceLog = [selected |-> FALSE, recognized |-> FALSE, notes |-> 0, env |-> ""]
    /\ Off("dispatch")
InitChat ==
    /\ chatPc = "on"
    /\ user_context = [u \in {} |-> NoContext]
    /\ lastCall = [user |-> "", follow_up |-> FALSE, before |-> NoContext,
                   intent |-> "", time_range |-> NoRange, calls |-> <<>>]
    /\ msgCount = 0
    /\ Off("chat")

SpecPoll == InitPoll /\ [][NextPoll]_vars

SpecEvents == InitEv /\ [][NextEv]_vars

SpecFall == InitFall /\ [][NextFall]_vars
SpecFallResponse == InitFall /\ [][NextFall \/ FallResponse]_vars

SpecMed == InitMed /\ [][NextMed]_vars

SpecAuth == InitAuth /\ [][NextAuth]_vars

SpecParse == InitParse /\ [][ParseQuery]_vars

SpecFormat == InitFormat /\ [][NextFormat]_vars

SpecDispatch == InitDispatch /\ [][process_update]_vars

SpecChat ==
    InitChat /\ [][\E user \in Users, text \in ChatMessages, act \in {"ok", "raise"},
                      db \in {"found", "empty", "raise"}, tg \in {"ok", "raise"} :
                       handle_message(user, text, act, db, tg)]_vars

\* the reminders bot, one poller at a time
InitReminders == InitPoll \/ InitEv \/ InitFall \/ InitMed
SpecReminders == InitReminders /\ [][NextPoll \/ NextEv \/ NextFall \/ NextMed]_vars

\* ------------------------------------------------------------------
\* Properties
\* ------------------------------------------------------------------

\* C1: each activity or task record causes at most one reminder message to
\* its user's chat, whatever the polls and the API's answers are.
C1_OncePerRecord == \A r \in Records : sent[r] <= 1

\* C2: each fall log causes at most one alert message per registered chat,
\* over every sequence of runs of process_fall_alerts.
C2_OneAlertPerChat == \A k \in Falls \X Chats : alerts[k] <= 1

\* C3: however often schedule_medication_reminders runs during one day, each
\* combination of medication, times_of_day entry and chat has at most one
\* send_medication_reminder job.
C3_OneJobPerDose == \A k \in Doses : jobs[k] <= 1

\* C4: when the scheduled process_events and the one started by /check
\* interleave at their await points, no event's reminder is sent more than
\* once. Stated with every PATCH accepted by the API, so that a second send
\* can come from the interleaving alone.
C4_NoDoubleSend == ~evPatchFailed => \A e \in Events : evSent[e] <= 1

\* C5: a reminder is sent for a record only when, for the time now_utc read
\* at the start of the poll, now_utc >= start - lead, now_utc < start and the
\* fetched reminder_sent flag is false, the lead being 5 when the field is
\* null; now_utc is the clock at the start of the poll.
C5_SendOnlyInWindow ==
    [][ /\ (pollPc = "idle" /\ pollPc' = "user") => now_utc' = clock
        /\ \A r \in Records :
             sent'[r] # sent[r] =>
               /\ pollPc = "records" /\ recIdx <= Len(fetched)
               /\ LET item == fetched[recIdx]
                      lead == IF item.lead = NULL THEN 5 ELSE item.lead
                  IN  /\ item.id = r
                      /\ sent'[r] = sent[r] + 1
                      /\ now_utc >= item.start_time - lead
                      /\ now_utc < item.start_time
                      /\ item.reminder_sent = FALSE ]_vars

\* a reminder went out for r1, whose lead is null, inside its five minutes
C5_Witness ==
    /\ pollPc # "off"
    /\ backend["r1"].lead = NULL
    /\ sent["r1"] = 1
    /\ now_utc >= 1 /\ now_utc < 6

\* C7: each fetch returns the empty list when the API answers with a status
\* other than 200 or the request raises, and the poll that called it goes on
\* and ends without sending or scheduling anything for that fetch.
C7_FailedFetchIsEmpty ==
    /\ [](lastFetch \in {"status", "raise"} /\ pollPc = "records" => fetched = <<>>)
    /\ [](\A p \in Runners : evFetch[p] \in {"status", "raise"} => evList[p] = <<>>)
    /\ [](fallFetch \in {"status", "raise"} => fallLogs = <<>>)
    /\ [][ /\ lastFetch \in {"status", "raise"} =>
                sent' = sent /\ markReq' = markReq /\ pollPc' \in {"records", "user", "idle"}
           /\ \A p \in Runners :
                evFetch[p] \in {"status", "raise"} /\ evPc[p] = "loop" =>
                   evPc'[p] \in {"loop", "idle"}
           /\ fallFetch \in {"status", "raise"} /\ fallPc = "loop" =>
                alerts' = alerts /\ fallPc' \in {"loop", "idle"}
           /\ medFetch' \in {"status", "raise"} =>
                jobs' = jobs /\ medPc' \in {"resident", "user", "idle"} ]_vars

\* a poll of each kind went past a failed fetch
C7_Witness ==
    \/ pollPc = "user" /\ userIdx = 2 /\ lastFetch = "status" /\ polls = 1
    \/ medPc = "resident" /\ medResIdx = 2 /\ medFetch = "raise"

\* C6: a handler wrapped by restricted runs its body only when
\* users_collection holds a user whose telegram_handle is the caller's
\* username; for any other caller the body does not run, context.user_data
\* stays as it was and the only effect is the not-authorized reply.
C6_RestrictedGate ==
    [][ \A c \in Callers :
          LET registered == \E d \in users_collection : d.telegram_handle = c
          IN  /\ bodyRuns'[c] # bodyRuns[c] => registered
              /\ (authCalls' # authCalls /\ authLast' = c /\ ~registered) =>
                   /\ bodyRuns' = bodyRuns
                   /\ user_data' = user_data
                   /\ users_collection' = users_collection
                   /\ \A o \in Callers \ {c} : denied'[o] = denied[o]
                   /\ denied'[c] \in {denied[c], denied[c] + 1} ]_vars

\* carol, who is not registered, was turned away while alice's handler ran
C6_Witness ==
    /\ denied["carol"] = 1 /\ bodyRuns["carol"] = 0
    /\ bodyRuns["alice"] = 1 /\ user_data["alice"]["name"] = "Alice"
    /\ \A k \in UserKeys : user_data["carol"][k] = ""

\* C8: parse_query applies its rules in a fixed order and the first rule that
\* matches decides the intent: 'today' and 'task' in the message give
\* task_query with today's range and empty filters; else the word task or
\* tasks gives task_query; else activity, activities, upcoming or scheduled
\* give activity_query; else the resident test gives resident_query; else
\* general_question. The intent is always one of these four values.
C8_FirstRuleDecides ==
    parsePc = "done" =>
        LET t == strip(lower(message_text))
            todays_tasks == Contains(t, Literal.today) /\ Contains(t, Literal.task)
        IN  /\ parsed.intent \in {"task_query", "activity_query", "resident_query",
                                  "general_question"}
            /\ todays_tasks =>
                   parsed = [intent |-> "task_query", time_range |-> get_today_range,
                             filters |-> {}]
            /\ parsed.intent =
                   IF todays_tasks THEN "task_query"
                   ELSE IF HasWord(t, Literal.task) \/ HasWord(t, Literal.tasks) THEN "task_query"
                   ELSE IF \/ HasWord(t, Literal.activity) \/ HasWord(t, Literal.activities)
                           \/ HasWord(t, Literal.upcoming) \/ HasWord(t, Literal.scheduled)
                        THEN "activity_query"
                   ELSE IF is_resident_query(t) THEN "resident_query"
                   ELSE "general_question"

\* the lines kept are a prefix of the text
IsPrefix(kept, text) ==
    /\ Len(kept) <= Len(text)
    /\ \A i \in 1..(Len(kept) - 1) : kept[i] = text[i]
    /\ kept[Len(kept)] <= text[Len(kept)]

\* C9: truncate_response returns a text of at most 4000 characters
\* unchanged, and for a longer text a prefix of it followed by the
\* truncation notice, at most 4000 characters in all; every result of
\* format_task_response, format_activity_response and
\* format_resident_response has at most 4000 characters.
C9_AtMostMaxLength ==
    fmtPc = "done" =>
        /\ ResultLen(fmtOut) <= 4000
        /\ fmtOp = "truncate_response" =>
              IF TextLen(fmtText) <= 4000
              THEN fmtOut = [kept |-> fmtText, notice |-> FALSE]
              ELSE fmtOut.notice /\ IsPrefix(fmtOut.kept, fmtText)

\* C9 witness: a text longer than 4000 characters was cut at a newline
\* between its 3801st and 3900th character and the notice was added.
C9_Witness ==
    /\ fmtPc = "done"
    /\ fmtOp = "truncate_response"
    /\ TextLen(fmtText) > 4000
    /\ fmtOut.notice
    /\ TextLen(fmtOut.kept) \in 3801..3899
    /\ Len(fmtOut.kept) < Len(fmtText)

\* the commands of the help text and the callbacks main() registers them with
HelpCommands == {"start", "help", "residents", "tasks", "stats", "voicenote", "whoami"}
OwnHandler(command) ==
    CASE command = "start" -> "start"
      [] command = "help" -> "help_command"
      [] command = "residents" -> "list_residents"
      [] command = "tasks" -> "list_tasks"
      [] command = "stats" -> "show_stats"
      [] command = "voicenote" -> "voicenote_start"
      [] command = "whoami" -> "whoami_command"

\* C10: every command of the help text is dispatched to its own handler, and
\* none is answered by the unknown-command handler.
C10_HelpCommandsDispatched ==
    (lastUpdate.kind = "command" /\ lastUpdate.data \in HelpCommands) =>
        /\ lastHandler = OwnHandler(lastUpdate.data)
        /\ lastHandler # "unknown"

\* C11: a follow-up message is answered by the handler of the intent stored
\* from the same user's previous query, with the stored time range, and the
\* stored context is left as it was; a follow-up without a previous query is
\* answered with the general help text.
C11_FollowUpUsesContext ==
    (msgCount > 0 /\ lastCall.follow_up) =>
        /\ user_context[lastCall.user] = lastCall.before
        /\ lastCall.calls # <<>>
        /\ IF lastCall.before.last_query = ""
           THEN Head(lastCall.calls) = "help"
           ELSE /\ lastCall.intent = lastCall.before.last_query
                /\ lastCall.time_range = lastCall.before.last_time_range

\* C12: every call of handle_message sends at least one reply.
C12_AlwaysReplies ==
    msgCount > 0 => lastCall.calls # <<>>

\* C13: in the activity and task pollers the mark PATCH is requested only
\* in the step in which send_message returned; when send_message raises for
\* a due record no mark is requested and the backend keeps the record as it
\* was, so the next poll inside the window finds it eligible again.
C13_MarkOnlyAfterSend ==
    [][\A r \in Records :
          /\ markReq'[r] # markReq[r] => sent'[r] = sent[r] + 1
          /\ ( /\ pollPc = "records"
               /\ recIdx <= Len(fetched)
               /\ recIdx' = recIdx + 1
               /\ fetched[recIdx].id = r
               /\ ReminderDue(now_utc, fetched[recIdx])
               /\ sent'[r] = sent[r] )
             => (markReq'[r] = markReq[r] /\ backend'[r] = backend[r])]_vars

\* C13 witness: in one poll a due record was sent and its mark requested,
\* and send_message raised for another due record, which has no mark request.
C13_Witness ==
    /\ pollPc = "records"
    /\ \E i, j \in 1..Len(fetched) :
          /\ i < recIdx /\ j < recIdx
          /\ ReminderDue(now_utc, fetched[i]) /\ ReminderDue(now_utc, fetched[j])
          /\ sent[fetched[i].id] = 1 /\ markReq[fetched[i].id] = 1
          /\ sent[fetched[j].id] = 0 /\ markReq[fetched[j].id] = 0

\* C14: the event poller marks an event reminder_sent only if the event's
\* message was delivered; an event whose send_message failed is not marked.
C14_MarkedOnlyIfDelivered ==
    [][\A e \in Events :
          (evBackend'[e].reminder_sent /\ ~evBackend[e].reminder_sent)
              => evSent[e] >= 1]_vars

\* C15: in each reminder loop an exception while handling one record is
\* caught and never keeps the remaining records of the run from being
\* processed: the loops over the activities, tasks and fall logs go on to
\* the next record after every record, and in the medication loop every
\* fetched medication that is due today and did not raise itself gets its
\* jobs in the turn that handles its resident.
C15_RemainingProcessed ==
    [][ /\ (pollPc = "records" /\ recIdx <= Len(fetched) /\ recIdx' # recIdx)
            => (pollPc' = "records" /\ recIdx' = recIdx + 1 /\ fetched' = fetched)
        /\ (fallPc = "loop" /\ fallIdx <= Len(fallLogs) /\ fallIdx' # fallIdx)
            => (fallPc' = "loop" /\ fallIdx' = fallIdx + 1 /\ fallLogs' = fallLogs)
        /\ (medPc = "resident" /\ medResIdx' = medResIdx + 1 /\ medFetch' = "ok")
            => LET medications == fetch_medications(medResidents[medResIdx], "ok", today)
                   chat == user_chat_map[UserOrder[medUserIdx]]
               IN  \A i \in 1..Len(medications) :
                      (medications[i] # medRaised' /\ MedDueToday(medications[i], today))
                         => \A k \in Doses :
                               (k[1] = medications[i] /\ k[3] = chat)
                                  => jobs'[k] = jobs[k] + 1 ]_vars

\* C16: a run of process_fall_alerts alerts a fetched log only if its status
\* is pending or confirmed and its timestamp is not older than five minutes
\* before the time of the run; for every such log send_message is called for
\* every chat of user_chat_map; a log of another status or an older
\* timestamp is never alerted.
C16_AlertRecentOpenLogs ==
    [][ /\ (fallPc = "idle" /\ fallPc' = "loop") => fallNow' = clock
        /\ alerts' # alerts => (fallPc = "loop" /\ fallIdx <= Len(fallLogs))
        /\ (fallPc = "loop" /\ fallIdx <= Len(fallLogs) /\ fallIdx' = fallIdx + 1)
            => LET log == fallLogs[fallIdx]
               IN  IF /\ log.status \in {"pending", "confirmed"}
                      /\ log.timestamp >= fallNow - FiveMinutes
                   THEN \A k \in Falls \X Chats :
                           /\ fallDelivery'[k[2]] \in {"ok", "raise"}
                           /\ alerts'[k] = IF k[1] = log.id /\ fallDelivery'[k[2]] = "ok"
                                           THEN alerts[k] + 1 ELSE alerts[k]
                   ELSE alerts' = alerts ]_vars

\* C16 witness: in one run a pending log of the last five minutes was sent
\* to both chats and an older open log was passed over.
C16_Witness ==
    /\ fallPc = "loop"
    /\ fallIdx = 3
    /\ fallLogs[1].status \in {"pending", "confirmed"}
    /\ fallLogs[1].timestamp < fallNow - FiveMinutes
    /\ fallLogs[2].status = "pending"
    /\ fallLogs[2].timestamp >= fallNow - FiveMinutes
    /\ \A c \in Chats : alerts[<<fallLogs[1].id, c>>] = 0 /\ alerts[<<fallLogs[2].id, c>>] = 1

C19_VoiceNoteOutcome ==
    [][ (updatesSeen' # updatesSeen /\ lastHandler' = "process_voice_note") =>
          /\ conv_state' \in {RECORDING_NOTE, CONFIRMING_NOTE}
          /\ voiceLog'.notes = voiceLog.notes
          /\ voiceLog'.env \in {"timeout", "no_match", "raised", "reply_raised"}
                => /\ conv_state' = RECORDING_NOTE
                   /\ Dispatch(conv_state', [kind |-> "voice", data |-> ""])
                         = "process_voice_note"
          /\ conv_state' = CONFIRMING_NOTE
                => /\ voiceLog'.env = "recognized"
                   /\ note_data'.transcription # ""
                   /\ note_data'.ai_summary # "" ]_vars

\* C19 witness: the recognition timed out and the conversation waits for
\* another voice message with nothing stored.
C19_Witness ==
    /\ lastHandler = "process_voice_note"
    /\ voiceLog.env = "timeout"
    /\ conv_state = RECORDING_NOTE
    /\ note_data.transcription = ""
    /\ voiceLog.notes = 0

====
